---- MODULE Spec2Model ----
(***************************************************************************)
(* LanguageServerManager of jupyter_lsp (manager.py): resolution of the    *)
(* language server specs, creation of the sessions, registration of the    *)
(* message listeners, the handler subscriptions and the forwarding of      *)
(* client and server messages.                                             *)
(***************************************************************************)
EXTENDS Integers, Sequences, FiniteSets, TLC

VARIABLES
    language_servers,             \* trait: configured specs, then the resolved ones
    conf_d_language_servers,      \* trait: specs from conf.d
    autodetect,                   \* trait
    language_servers_from_config, \* self._language_servers_from_config
    all_language_servers,         \* self.all_language_servers
    entry_points,                 \* the EP_SPEC_V1 group, in iteration order
    all_listeners,                \* trait (list)
    server_listeners,             \* trait (list)
    client_listeners,             \* trait (list)
    listener_entry_points,        \* scope -> the listener group of that scope
    registered,                   \* scope -> listeners registered on the class
    init_pc,                      \* position inside initialize()
    sessions,                     \* trait: key -> session
    handlers,                     \* key -> session.handlers of that key's session
    written,                      \* key -> messages passed to session.write
    delivered,                    \* handler -> messages passed to write_message
    client_tasks,                 \* message -> on_client_message coroutine
    server_tasks,                 \* message -> on_server_message coroutine
    result                        \* whether the most recent call returned or raised

resolver_vars == <<language_servers, conf_d_language_servers, autodetect,
                   language_servers_from_config, all_language_servers,
                   entry_points>>
listener_vars == <<all_listeners, server_listeners, client_listeners,
                   listener_entry_points, registered>>
broker_vars == <<handlers, written, delivered, client_tasks, server_tasks, result>>
vars == <<resolver_vars, listener_vars, init_pc, sessions, broker_vars>>

----------------------------------------------------------------------------
(* Bounds *)

MaxProviders == 2      \* entry points in the spec group
MaxClientMsgs == 2     \* calls of on_client_message
MaxServerMsgs == 1     \* calls of on_server_message

----------------------------------------------------------------------------
(* Python dicts are functions; a spec is a record that may lack argv.      *)

EmptyDict == [k \in {} |-> {}]

Update(d, e) ==
    [k \in DOMAIN d \cup DOMAIN e |-> IF k \in DOMAIN e THEN e[k] ELSE d[k]]

RECURSIVE UpdatePairs(_, _)
UpdatePairs(d, pairs) ==
    IF pairs = <<>> THEN d
    ELSE UpdatePairs(Update(d, [k \in {pairs[1][1]} |-> pairs[1][2]]), Tail(pairs))

RECURSIVE Items(_)
Items(d) ==
    IF DOMAIN d = {} THEN <<>>
    ELSE LET k == CHOOSE x \in DOMAIN d : TRUE
         IN  <<(<<k, d[k]>>)>> \o Items([x \in DOMAIN d \ {k} |-> d[x]])

GetArgv(spec) == IF "argv" \in DOMAIN spec THEN spec.argv ELSE <<>>

Keys == {"py", "r"}

Pyls    == [argv |-> <<"pyls">>, version |-> 2]
Rls     == [argv |-> <<"rls">>, version |-> 2]
Static  == [argv |-> <<"pyls", "-v">>, version |-> 2]
Dynamic == [argv |-> <<"alt">>, version |-> 2]
OptOut  == [argv |-> <<>>, version |-> 2]
NoArgv  == [version |-> 2]
Malformed == [argv |-> <<"pyls">>, version |-> 3]

Dicts(keys, specs) == UNION {[d -> specs] : d \in SUBSET keys}

----------------------------------------------------------------------------
(* Spec finders.  An entry point either fails to load or loads a finder    *)
(* that may have is_installed and that returns specs, None or raises.      *)

Finder(inst, call, specs) ==
    [load |-> "ok", is_installed |-> inst, call |-> call, specs |-> specs]

Unloadable ==
    [load |-> "raises", is_installed |-> "absent", call |-> "raises",
     specs |-> EmptyDict]

iter_errors(specs) == {k \in DOMAIN specs : specs[k].version # 2}

\* variant: the schema applied to each pair, the valid ones kept
finder_pairs_entry_wise(ep, only_installed) ==
    IF ep.load = "raises" THEN <<>>
    ELSE IF only_installed /\ ep.is_installed = "raises" THEN <<>>
    ELSE IF only_installed /\ ep.is_installed = "no" THEN <<>>
    ELSE IF ep.call = "raises" THEN <<>>
    ELSE LET specs == IF ep.call = "none" THEN EmptyDict ELSE ep.specs
         IN  Items([k \in DOMAIN specs \ iter_errors(specs) |-> specs[k]])

finder_pairs(ep, only_installed) ==
    IF ep.load = "raises" THEN <<>>
    ELSE IF only_installed /\ ep.is_installed = "raises" THEN <<>>
    ELSE IF only_installed /\ ep.is_installed = "no" THEN <<>>
    ELSE IF ep.call = "raises" THEN <<>>
    ELSE LET specs == IF ep.call = "none" THEN EmptyDict ELSE ep.specs
         IN  IF iter_errors(specs) # {} THEN <<>> ELSE Items(specs)

\* the finder raised at ep.load(), in is_installed or when called, and the
\* except clause logged it
finder_fails(ep, only_installed) ==
    \/ ep.load = "raises"
    \/ /\ ep.load = "ok"
       /\ only_installed
       /\ ep.is_installed = "raises"
    \/ /\ ep.load = "ok"
       /\ ~(only_installed /\ ep.is_installed \in {"no", "raises"})
       /\ ep.call = "raises"

\* variant: break instead of continue after a finder has failed
RECURSIVE autodetect_from_stop_at_failure(_, _)
autodetect_from_stop_at_failure(eps, only_installed) ==
    IF eps = <<>> THEN <<>>
    ELSE IF finder_fails(Head(eps), only_installed) THEN <<>>
    ELSE finder_pairs(Head(eps), only_installed)
            \o autodetect_from_stop_at_failure(Tail(eps), only_installed)

RECURSIVE autodetect_from(_, _)
autodetect_from(eps, only_installed) ==
    IF eps = <<>> THEN <<>>
    ELSE finder_pairs(Head(eps), only_installed)
            \o autodetect_from(Tail(eps), only_installed)

autodetect_language_servers(only_installed) ==
    autodetect_from(entry_points, only_installed)

----------------------------------------------------------------------------
(* _collect_language_servers *)

\* variant: the static configuration applied over conf.d
config_merged_static_wins(from_config, conf_d) == Update(conf_d, from_config)

\* dict(self._language_servers_from_config) updated with conf_d_language_servers
config_merged(from_config, conf_d) == Update(from_config, conf_d)

\* variant: the discovered specs applied over the configuration
overlay_discovered_wins(discovered, config) == Update(config, discovered)

\* language_servers.update(language_servers_from_config)
overlay(discovered, config) == Update(discovered, config)

\* variant: no opt-out filter
opt_out_filter_keep_all(d) == d

\* {key: spec for key, spec in language_servers.items() if spec.get("argv")}
opt_out_filter(d) == [k \in {x \in DOMAIN d : GetArgv(d[x]) # <<>>} |-> d[k]]

\* variant: the finders consulted whatever autodetect says
discovered_specs_always(only_installed) ==
    UpdatePairs(EmptyDict, autodetect_language_servers(only_installed))

\* the language_servers dict of _collect_language_servers before the
\* configuration is applied to it
discovered_specs(only_installed) ==
    IF autodetect
    THEN UpdatePairs(EmptyDict, autodetect_language_servers(only_installed))
    ELSE EmptyDict

collect_language_servers(from_config, only_installed) ==
    opt_out_filter(overlay(discovered_specs(only_installed),
                           config_merged(from_config, conf_d_language_servers)))

----------------------------------------------------------------------------
(* initialize: init_language_servers, init_listeners, init_sessions *)

RECURSIVE loaded(_)
loaded(eps) ==
    IF eps = <<>> THEN <<>>
    ELSE (IF Head(eps).load = "ok" THEN <<Head(eps).listener>> ELSE <<>>)
            \o loaded(Tail(eps))

init_language_servers ==
    /\ init_pc = "new"
    /\ language_servers_from_config' = language_servers
    /\ language_servers' = collect_language_servers(language_servers, TRUE)
    /\ all_language_servers' = collect_language_servers(language_servers, FALSE)
    /\ init_pc' = "specs"
    /\ UNCHANGED <<conf_d_language_servers, autodetect, entry_points,
                   listener_vars, sessions, broker_vars>>

init_listeners ==
    /\ init_pc = "specs"
    /\ all_listeners' = all_listeners \o loaded(listener_entry_points["all"])
    /\ client_listeners' = client_listeners \o loaded(listener_entry_points["client"])
    /\ server_listeners' = server_listeners \o loaded(listener_entry_points["server"])
    /\ registered' = [registered EXCEPT !["all"] = @ \o all_listeners',
                                        !["client"] = @ \o client_listeners',
                                        !["server"] = @ \o server_listeners']
    /\ init_pc' = "listeners"
    /\ UNCHANGED <<resolver_vars, listener_entry_points, sessions, broker_vars>>

LanguageServerSession(language_server, spec) ==
    [language_server |-> language_server, spec |-> spec]

\* variant: one session for each spec of all_language_servers
init_sessions_all_known ==
    /\ init_pc = "listeners"
    /\ sessions' = [k \in DOMAIN all_language_servers |->
                        LanguageServerSession(k, all_language_servers[k])]
    /\ handlers' = [k \in DOMAIN all_language_servers |-> {}]
    /\ written' = [k \in DOMAIN all_language_servers |-> <<>>]
    /\ init_pc' = "ready"
    /\ UNCHANGED <<resolver_vars, listener_vars, delivered, client_tasks,
                   server_tasks, result>>

\* variant: initialize calling init_sessions straight after the resolution
init_sessions_before_listeners ==
    /\ init_pc = "specs"
    /\ sessions' = [k \in DOMAIN language_servers |->
                        LanguageServerSession(k, language_servers[k])]
    /\ handlers' = [k \in DOMAIN language_servers |-> {}]
    /\ written' = [k \in DOMAIN language_servers |-> <<>>]
    /\ init_pc' = "ready"
    /\ UNCHANGED <<resolver_vars, listener_vars, delivered, client_tasks,
                   server_tasks, result>>

\* third step of initialize, after init_language_servers and init_listeners
init_sessions ==
    /\ init_pc = "listeners"
    /\ sessions' = [k \in DOMAIN language_servers |->
                        LanguageServerSession(k, language_servers[k])]
    /\ handlers' = [k \in DOMAIN language_servers |-> {}]
    /\ written' = [k \in DOMAIN language_servers |-> <<>>]
    /\ init_pc' = "ready"
    /\ UNCHANGED <<resolver_vars, listener_vars, delivered, client_tasks,
                   server_tasks, result>>

----------------------------------------------------------------------------
(* Handlers, subscribe and unsubscribe *)

Handlers == {"h1", "h2", "h3", "h4"}

language_server(h) ==
    CASE h \in {"h1", "h2"} -> "py"
      [] h = "h3" -> "r"
      [] OTHER -> "jl"

Range(s) == {s[i] : i \in DOMAIN s}

\* session.handlers = set([handler]) | session.handlers
subscribed(session_handlers, handler) == {handler} \cup session_handlers

\* variant: unsubscribe that removes nothing
unsubscribed_keep_all(session_handlers, handler) == session_handlers

\* session.handlers = [h for h in session.handlers if h != handler], which
\* the handlers trait of the session holds as a set
unsubscribed(session_handlers, handler) ==
    {h \in session_handlers : h # handler}

\* variant: subscribe adding the handler to every session of the registry
subscribe_every_session(handler) ==
    /\ init_pc = "ready"
    /\ handlers' = [k \in DOMAIN handlers |-> subscribed(handlers[k], handler)]
    /\ result' = "returned"
    /\ UNCHANGED <<resolver_vars, listener_vars, init_pc, sessions, written,
                   delivered, client_tasks, server_tasks>>

\* variant: subscribe without the session check, where None.handlers raises
subscribe_unguarded(handler) ==
    /\ init_pc = "ready"
    /\ LET key == language_server(handler)
       IN  IF key \notin DOMAIN sessions
           THEN /\ result' = "raised"
                /\ UNCHANGED handlers
           ELSE /\ handlers' = [handlers EXCEPT ![key] = subscribed(@, handler)]
                /\ result' = "returned"
    /\ UNCHANGED <<resolver_vars, listener_vars, init_pc, sessions, written,
                   delivered, client_tasks, server_tasks>>

subscribe(handler) ==
    /\ init_pc = "ready"
    /\ LET key == language_server(handler)
       IN  IF key \notin DOMAIN sessions
           THEN /\ result' = "returned"
                /\ UNCHANGED handlers
           ELSE /\ handlers' = [handlers EXCEPT ![key] = subscribed(@, handler)]
                /\ result' = "returned"
    /\ UNCHANGED <<resolver_vars, listener_vars, init_pc, sessions, written,
                   delivered, client_tasks, server_tasks>>

unsubscribe(handler) ==
    /\ init_pc = "ready"
    /\ LET key == language_server(handler)
       IN  IF key \notin DOMAIN sessions
           THEN /\ result' = "returned"
                /\ UNCHANGED handlers
           ELSE /\ handlers' = [handlers EXCEPT ![key] = unsubscribed(@, handler)]
                /\ result' = "returned"
    /\ UNCHANGED <<resolver_vars, listener_vars, init_pc, sessions, written,
                   delivered, client_tasks, server_tasks>>

----------------------------------------------------------------------------
(* wait_for_listeners: every listener of the scope and of ALL is invoked   *)
(* and the caller is suspended until all of them have completed.           *)

wait_for_listeners(scope) == Range(registered[scope] \o registered["all"])

----------------------------------------------------------------------------
(* on_client_message *)

\* variant: the write put before the earlier writes
forward_lifo(task, msg) ==
    LET key == language_server(task.handler)
    IN  IF key \notin DOMAIN sessions
        THEN /\ client_tasks' = [i \in DOMAIN client_tasks \cup {msg} |->
                    IF i = msg THEN [task EXCEPT !.pc = "dropped"]
                    ELSE client_tasks[i]]
             /\ result' = "returned"
             /\ UNCHANGED written
        ELSE /\ client_tasks' = [i \in DOMAIN client_tasks \cup {msg} |->
                    IF i = msg THEN [task EXCEPT !.pc = "written"]
                    ELSE client_tasks[i]]
             /\ written' = [written EXCEPT ![key] = <<msg>> \o @]
             /\ result' = "returned"

\* variant: the call returns after the await without session.write
forward_without_write(task, msg) ==
    /\ client_tasks' = [i \in DOMAIN client_tasks \cup {msg} |->
            IF i = msg THEN [task EXCEPT !.pc = "dropped"]
            ELSE client_tasks[i]]
    /\ result' = "returned"
    /\ UNCHANGED written

\* the part of on_client_message after the await
forward(task, msg) ==
    LET key == language_server(task.handler)
    IN  IF key \notin DOMAIN sessions
        THEN /\ client_tasks' = [i \in DOMAIN client_tasks \cup {msg} |->
                    IF i = msg THEN [task EXCEPT !.pc = "dropped"]
                    ELSE client_tasks[i]]
             /\ result' = "returned"
             /\ UNCHANGED written
        ELSE /\ client_tasks' = [i \in DOMAIN client_tasks \cup {msg} |->
                    IF i = msg THEN [task EXCEPT !.pc = "written"]
                    ELSE client_tasks[i]]
             /\ written' = [written EXCEPT ![key] = Append(@, msg)]
             /\ result' = "returned"

\* the coroutine of a call: its handler, the listeners it awaits and those
\* that have completed, and the calls that had returned when it was made
client_task(handler) ==
    [handler |-> handler, invoked |-> wait_for_listeners("client"),
     done |-> {}, pc |-> "listeners",
     returned_before |-> {i \in DOMAIN client_tasks :
                             client_tasks[i].pc # "listeners"}]

\* variant: session.write before the listeners are awaited
on_client_message_write_first(handler) ==
    /\ init_pc = "ready"
    /\ Len(client_tasks) < MaxClientMsgs
    /\ forward(client_task(handler), Len(client_tasks) + 1)
    /\ UNCHANGED <<resolver_vars, listener_vars, init_pc, sessions, handlers,
                   delivered, server_tasks>>

on_client_message(handler) ==
    /\ init_pc = "ready"
    /\ Len(client_tasks) < MaxClientMsgs
    /\ LET msg == Len(client_tasks) + 1
           task == client_task(handler)
       IN  IF task.invoked = {}
           THEN forward(task, msg)
           ELSE /\ client_tasks' = Append(client_tasks, task)
                /\ UNCHANGED <<written, result>>
    /\ UNCHANGED <<resolver_vars, listener_vars, init_pc, sessions, handlers,
                   delivered, server_tasks>>

\* A listener invoked for msg completes.  The event loop resumes the
\* suspended calls in the order in which their dispatches completed, so the
\* completion of the last listener and the rest of on_client_message are
\* one step.
client_listener_done(msg, listener) ==
    /\ msg \in DOMAIN client_tasks
    /\ client_tasks[msg].pc = "listeners"
    /\ listener \in client_tasks[msg].invoked \ client_tasks[msg].done
    /\ LET task == [client_tasks[msg] EXCEPT !.done = @ \cup {listener}]
       IN  IF task.done = task.invoked
           THEN forward(task, msg)
           ELSE /\ client_tasks' = [client_tasks EXCEPT ![msg] = task]
                /\ UNCHANGED <<written, result>>
    /\ UNCHANGED <<resolver_vars, listener_vars, init_pc, sessions, handlers,
                   delivered, server_tasks>>

----------------------------------------------------------------------------
(* on_server_message *)

Orders(S) == {o \in [1..Cardinality(S) -> S] : Range(o) = S}

\* variant: the keys of all sessions, whichever session sent the message
matching_keys_every_session(session) ==
    CHOOSE o \in Orders(DOMAIN sessions) : TRUE

\* [ls_key for ls_key, sess in self.sessions.items() if sess == session]
matching_keys(session) ==
    CHOOSE o \in Orders({k \in DOMAIN sessions : sessions[k] = session}) : TRUE

\* variant: the handlers as they were when on_server_message was called
recipients_at_call(task, key) == task.at_call

\* session.handlers, read when the loop starts
recipients(task, key) == handlers[key]

\* the broadcast loop at the end of on_server_message: write_message succeeds
\* for the first n handlers of the iteration and raises for the next, if any
broadcast(task, msg, order, n) ==
    LET got == {order[i] : i \in 1..n}
        failed == n < Len(order)
    IN  /\ delivered' = [h \in Handlers |->
                IF h \in got THEN Append(delivered[h], msg) ELSE delivered[h]]
        /\ server_tasks' = [i \in DOMAIN server_tasks \cup {msg} |->
                IF i = msg
                THEN [task EXCEPT !.pc = IF failed THEN "raised" ELSE "done",
                                  !.at_broadcast = handlers[task.session],
                                  !.raised_by = IF failed THEN {order[n + 1]} ELSE {}]
                ELSE server_tasks[i]]
        /\ result' = IF failed THEN "raised" ELSE "returned"

on_server_message(key) ==
    /\ init_pc = "ready"
    /\ key \in DOMAIN sessions
    /\ Len(server_tasks) < MaxServerMsgs
    /\ LET msg == Len(server_tasks) + 1
           keys == matching_keys(sessions[key])
           task == [session |-> key, keys |-> keys, dispatched |-> <<>>,
                    invoked |-> {}, done |-> {}, pc |-> "listeners",
                    at_call |-> handlers[key], at_broadcast |-> {},
                    raised_by |-> {}]
           first == [task EXCEPT !.invoked = wait_for_listeners("server"),
                                 !.dispatched = <<Head(keys)>>,
                                 !.keys = Tail(keys)]
       IN  IF first.invoked = {}
           THEN \E order \in Orders(recipients(task, key)) :
                \E n \in 0..Len(order) :
                    broadcast([task EXCEPT !.dispatched = keys, !.keys = <<>>],
                              msg, order, n)
           ELSE /\ server_tasks' = Append(server_tasks, first)
                /\ UNCHANGED <<delivered, result>>
    /\ UNCHANGED <<resolver_vars, listener_vars, init_pc, sessions, handlers,
                   written, client_tasks>>

server_listener_done(msg, listener) ==
    /\ msg \in DOMAIN server_tasks
    /\ server_tasks[msg].pc = "listeners"
    /\ listener \in server_tasks[msg].invoked \ server_tasks[msg].done
    /\ server_tasks' = [server_tasks EXCEPT ![msg].done = @ \cup {listener}]
    /\ UNCHANGED <<resolver_vars, listener_vars, init_pc, sessions, handlers,
                   written, delivered, client_tasks, result>>

on_server_message_resume(msg) ==
    /\ msg \in DOMAIN server_tasks
    /\ server_tasks[msg].pc = "listeners"
    /\ server_tasks[msg].done = server_tasks[msg].invoked
    /\ LET task == server_tasks[msg]
       IN  IF task.keys # <<>>
           THEN /\ server_tasks' = [server_tasks EXCEPT ![msg] =
                        [task EXCEPT !.invoked = wait_for_listeners("server"),
                                     !.done = {},
                                     !.dispatched = Append(@, Head(task.keys)),
                                     !.keys = Tail(task.keys)]]
                /\ UNCHANGED <<delivered, result>>
           ELSE \E order \in Orders(recipients(task, task.session)) :
                \E n \in 0..Len(order) :
                    broadcast(task, msg, order, n)
    /\ UNCHANGED <<resolver_vars, listener_vars, init_pc, sessions, handlers,
                   written, client_tasks>>

----------------------------------------------------------------------------
(* Initial states: the manager as constructed, with its configuration, the *)
(* installed entry points and the configured listeners.                    *)

SeqsUpTo(S, n) == UNION {[1..i -> S] : i \in 0..n}

ScopeNames == {"all", "client", "server"}

\* the listener traits and the listener entry point groups
ListenerConfig(all, client, server, client_eps) ==
    [all |-> all, client |-> client, server |-> server,
     entry_points |-> [scope \in ScopeNames |->
                          IF scope = "client" THEN client_eps ELSE <<>>]]

ListenerConfigs ==
    { ListenerConfig(<<>>, <<>>, <<>>, <<>>),
      ListenerConfig(<<>>, <<"c1">>, <<"s1">>,
                     <<[load |-> "raises", listener |-> "c2"]>>),
      ListenerConfig(<<"a1">>, <<>>, <<>>,
                     <<[load |-> "ok", listener |-> "c3"]>>) }

Listeners == {"a1", "c1", "c2", "c3", "s1"}

Configured(config) ==
    /\ all_listeners = config.all
    /\ client_listeners = config.client
    /\ server_listeners = config.server
    /\ listener_entry_points = config.entry_points

Constructed ==
    /\ language_servers_from_config = EmptyDict
    /\ all_language_servers = EmptyDict
    /\ registered = [scope \in {"all", "client", "server"} |-> <<>>]
    /\ init_pc = "new"
    /\ sessions = EmptyDict
    /\ handlers = EmptyDict
    /\ written = EmptyDict
    /\ delivered = [h \in Handlers |-> <<>>]
    /\ client_tasks = <<>>
    /\ server_tasks = <<>>
    /\ result = "returned"

Init ==
    /\ language_servers = EmptyDict
    /\ conf_d_language_servers = [k \in {"r"} |-> Dynamic]
    /\ autodetect = TRUE
    /\ entry_points = <<Finder("yes", "ok", [k \in {"py"} |-> Pyls])>>
    /\ \E config \in ListenerConfigs : Configured(config)
    /\ Constructed

initialize == init_language_servers \/ init_listeners \/ init_sessions

subscriptions ==
    \/ \E h \in Handlers : subscribe(h)
    \/ \E h \in Handlers : unsubscribe(h)

client_messages ==
    \/ \E h \in Handlers : on_client_message(h)
    \/ \E m \in 1..MaxClientMsgs, l \in Listeners : client_listener_done(m, l)

server_messages ==
    \/ \E k \in Keys : on_server_message(k)
    \/ \E m \in 1..MaxServerMsgs, l \in Listeners : server_listener_done(m, l)
    \/ \E m \in 1..MaxServerMsgs : on_server_message_resume(m)

Next == initialize \/ subscriptions \/ client_messages \/ server_messages

Spec == Init /\ [][Next]_vars

(* The client path and the server path share only state that neither     *)
(* writes (sessions, handlers, registered), so each is also explored     *)
(* without the other.                                                    *)

NextClient == initialize \/ subscriptions \/ client_messages

SpecClient == Init /\ [][NextClient]_vars

\* the listeners that wait_for_listeners has invoked for a client message
\* complete: while one is pending the event loop goes on running them, which
\* brings each of the finitely many pending listeners to its end
ListenersComplete ==
    WF_vars(\E m \in 1..MaxClientMsgs, l \in Listeners :
                client_listener_done(m, l))

SpecClientFair == SpecClient /\ ListenersComplete

NextServer == initialize \/ subscriptions \/ server_messages

SpecServer == Init /\ [][NextServer]_vars

(* Resolution alone, over the configurations and the installed finders. *)

FinderPool ==
    { Finder("absent", "ok", [k \in {"py"} |-> Pyls]),
      Finder("yes", "ok", [k \in {"py"} |-> OptOut]),
      Finder("no", "ok", [k \in {"py", "r"} |-> IF k = "py" THEN OptOut ELSE Rls]),
      Finder("yes", "ok", [k \in {"py", "r"} |-> IF k = "py" THEN Pyls ELSE Malformed]),
      Finder("raises", "ok", [k \in {"r"} |-> Rls]),
      Finder("yes", "raises", [k \in {"r"} |-> Rls]),
      Finder("absent", "none", EmptyDict),
      Unloadable }

InitResolve ==
    /\ language_servers \in Dicts(Keys, {Static, OptOut})
    /\ conf_d_language_servers \in Dicts(Keys, {Dynamic, OptOut, NoArgv})
    /\ autodetect \in BOOLEAN
    /\ entry_points \in SeqsUpTo(FinderPool, MaxProviders)
    /\ autodetect \/ Len(entry_points) <= 1
    /\ Configured(ListenerConfig(<<"a1">>, <<"c1">>, <<"s1">>,
                                 <<[load |-> "raises", listener |-> "c2"],
                                   [load |-> "ok", listener |-> "c3"]>>))
    /\ Constructed

NextResolve == initialize

SpecResolve == InitResolve /\ [][NextResolve]_vars

----------------------------------------------------------------------------
(* Properties of the client path (SpecClient) *)

ClientListeners == Range(registered["client"]) \cup Range(registered["all"])

WrittenMsgs == UNION {Range(written[k]) : k \in DOMAIN written}

\* C1: a client message is passed to Session.write only after every
\* listener registered under CLIENT or ALL has been invoked for it and has
\* completed.
C1_WriteAfterListeners ==
    \A m \in WrittenMsgs :
        /\ m \in DOMAIN client_tasks
        /\ client_tasks[m].invoked = ClientListeners
        /\ client_tasks[m].done = ClientListeners

C1_Witness ==
    \E m \in WrittenMsgs :
        /\ Cardinality(ClientListeners) >= 2
        /\ client_tasks[m].done = ClientListeners

\* C2 as stated: the messages of one handler are written to its session in
\* the order of their calls of on_client_message, however the calls
\* interleave at the await.
C2_SendOrder ==
    \A k \in DOMAIN written :
        \A i, j \in DOMAIN written[k] :
            (/\ client_tasks[written[k][i]].handler
                    = client_tasks[written[k][j]].handler
             /\ written[k][i] < written[k][j]) => i < j

\* C2 as amended: a message whose call had returned before another call was
\* made is written before the message of that call; calls that overlap at
\* the await write in the order in which their listener dispatches complete.
C2_OrderOfReturnedCalls ==
    \A k \in DOMAIN written :
        \A i, j \in DOMAIN written[k] :
            written[k][i] \in client_tasks[written[k][j]].returned_before
                => i < j

C2_Witness ==
    \E k \in DOMAIN written :
        /\ Len(written[k]) = 2
        /\ ClientListeners # {}
        /\ client_tasks[written[k][1]].handler = client_tasks[written[k][2]].handler
        /\ written[k][1] \in client_tasks[written[k][2]].returned_before

NoSession(h) == language_server(h) \notin DOMAIN sessions

\* C5: for a handler whose key has no session, subscribe, unsubscribe and
\* on_client_message return without raising, change no subscriber set and
\* write to no session.
C5_NoSessionIsNoOp ==
    [][\A h \in Handlers :
          (/\ NoSession(h)
           /\ \/ subscribe(h)
              \/ unsubscribe(h)
              \/ on_client_message(h)
              \/ \E m \in DOMAIN client_tasks, l \in Listeners :
                    client_tasks[m].handler = h /\ client_listener_done(m, l))
          => /\ handlers' = handlers
             /\ written' = written
             /\ result' = "returned"]_vars

C5_Witness ==
    /\ \E m \in DOMAIN client_tasks :
          /\ NoSession(client_tasks[m].handler)
          /\ client_tasks[m].pc = "dropped"
          /\ client_tasks[m].done # {}
    /\ \E k \in DOMAIN handlers : handlers[k] # {}
    /\ result = "returned"

\* C6 as stated: subscribe(H) followed by unsubscribe(H) leaves the
\* subscriber set of H's session as it was, whether or not H was a member.
C6_RoundTrip ==
    \A h \in Handlers :
        ~NoSession(h) =>
            unsubscribed(subscribed(handlers[language_server(h)], h), h)
                = handlers[language_server(h)]

\* C6 as amended: subscribe(H) followed by unsubscribe(H) leaves the
\* subscriber set of H's session without H and otherwise as it was, so it
\* is unchanged exactly when H was not subscribed before.
C6_RoundTripRemoves ==
    \A h \in Handlers :
        ~NoSession(h) =>
            LET before == handlers[language_server(h)]
                after == unsubscribed(subscribed(before, h), h)
            IN  /\ after = before \ {h}
                /\ (after = before) <=> (h \notin before)

C6_Witness ==
    \E h \in Handlers :
        /\ ~NoSession(h)
        /\ h \in handlers[language_server(h)]
        /\ handlers[language_server(h)] # {h}

----------------------------------------------------------------------------
(* Properties of the server path (SpecServer) *)

Received(msg) == {h \in Handlers : msg \in Range(delivered[h])}

Copies(msg, h) == Cardinality({i \in DOMAIN delivered[h] : delivered[h][i] = msg})

Finished(msg) ==
    msg \in DOMAIN server_tasks /\ server_tasks[msg].pc \in {"done", "raised"}

\* C3 as stated: a broadcast delivers the message to exactly the handlers
\* that were subscribed to the session when on_server_message was called
\* (stated for the calls that return, where no write_message raised).
C3_SnapshotAtCall ==
    \A m \in DOMAIN server_tasks :
        server_tasks[m].pc = "done" => Received(m) = server_tasks[m].at_call

\* C3 as amended: a broadcast delivers the message to handlers that are
\* subscribed to the session when the listener dispatch has completed and
\* the loop starts, and to no others: to all of them when on_server_message
\* returns, and to those iterated before the raising one when a
\* write_message raises.
C3_SnapshotAtBroadcast ==
    \A m \in DOMAIN server_tasks :
        Finished(m) =>
            /\ Received(m) \subseteq server_tasks[m].at_broadcast
            /\ server_tasks[m].pc = "done"
                   => Received(m) = server_tasks[m].at_broadcast
            /\ server_tasks[m].pc = "raised"
                   => /\ server_tasks[m].raised_by \subseteq server_tasks[m].at_broadcast
                      /\ server_tasks[m].raised_by \cap Received(m) = {}

C3_Witness ==
    \E m \in DOMAIN server_tasks :
        /\ server_tasks[m].pc = "done"
        /\ server_tasks[m].at_broadcast # server_tasks[m].at_call
        /\ server_tasks[m].at_broadcast \ server_tasks[m].at_call # {}
        /\ server_tasks[m].at_call \ server_tasks[m].at_broadcast # {}
        /\ Received(m) = server_tasks[m].at_broadcast

\* C4: when write_message raises for one handler during a broadcast, every
\* other handler subscribed to the session still receives the message.
C4_FailureIsolated ==
    \A m \in DOMAIN server_tasks :
        Finished(m) =>
            \A h \in server_tasks[m].at_broadcast \ server_tasks[m].raised_by :
                h \in Received(m)

\* C10: on_server_message delivers the message exactly once to every
\* handler subscribed to the session (but one whose own write_message
\* raised) and to no handler of another session.
C10_ExactlyOnce ==
    \A m \in DOMAIN server_tasks :
        Finished(m) =>
            \A h \in Handlers \ server_tasks[m].raised_by :
                Copies(m, h) = IF h \in server_tasks[m].at_broadcast THEN 1 ELSE 0

----------------------------------------------------------------------------
(* Properties of the resolution (SpecResolve) *)

Resolved(only_installed) ==
    IF only_installed THEN language_servers ELSE all_language_servers

Merged == config_merged(language_servers_from_config, conf_d_language_servers)

\* C7: a key that both the discovered mapping and the merged configuration
\* hold resolves to the configuration spec, and to nothing when that spec
\* has an empty argv.
C7_ConfigurationWins ==
    init_pc # "new" =>
        \A only_installed \in BOOLEAN :
            \A k \in DOMAIN discovered_specs(only_installed) \cap DOMAIN Merged :
                IF GetArgv(Merged[k]) # <<>>
                THEN /\ k \in DOMAIN Resolved(only_installed)
                     /\ Resolved(only_installed)[k] = Merged[k]
                ELSE k \notin DOMAIN Resolved(only_installed)

C7_Witness ==
    /\ init_pc # "new"
    /\ \E k \in DOMAIN discovered_specs(TRUE) \cap DOMAIN Merged :
          /\ GetArgv(discovered_specs(TRUE)[k]) # <<>>
          /\ GetArgv(Merged[k]) # <<>>
          /\ discovered_specs(TRUE)[k] # Merged[k]
          /\ language_servers[k] = Merged[k]

\* C8: a key configured both statically and in conf.d is merged to its
\* conf.d spec, which is the one both resolved mappings hold for it.
C8_DynamicOverridesStatic ==
    init_pc # "new" =>
        \A k \in DOMAIN language_servers_from_config
                    \cap DOMAIN conf_d_language_servers :
            /\ Merged[k] = conf_d_language_servers[k]
            /\ \A only_installed \in BOOLEAN :
                  IF GetArgv(conf_d_language_servers[k]) # <<>>
                  THEN /\ k \in DOMAIN Resolved(only_installed)
                       /\ Resolved(only_installed)[k] = conf_d_language_servers[k]
                  ELSE k \notin DOMAIN Resolved(only_installed)

C8_Witness ==
    /\ init_pc # "new"
    /\ \E k \in DOMAIN language_servers_from_config
                   \cap DOMAIN conf_d_language_servers :
          /\ GetArgv(language_servers_from_config[k]) # <<>>
          /\ GetArgv(conf_d_language_servers[k]) # <<>>
          /\ language_servers_from_config[k] # conf_d_language_servers[k]
          /\ language_servers[k] = conf_d_language_servers[k]

\* C9: no entry of either resolved mapping has an empty or missing argv,
\* and a key that the configuration maps to an empty argv is absent even
\* when a finder returns a spec with an argv for it.
C9_NoEmptyArgv ==
    init_pc # "new" =>
        \A only_installed \in BOOLEAN :
            /\ \A k \in DOMAIN Resolved(only_installed) :
                  /\ "argv" \in DOMAIN Resolved(only_installed)[k]
                  /\ Resolved(only_installed)[k].argv # <<>>
            /\ \A k \in DOMAIN Merged :
                  GetArgv(Merged[k]) = <<>> => k \notin DOMAIN Resolved(only_installed)

C9_Witness ==
    /\ init_pc # "new"
    /\ discovered_specs(TRUE) = [k \in {"py"} |-> Pyls]
    /\ language_servers_from_config = EmptyDict
    /\ conf_d_language_servers = [k \in {"py"} |-> OptOut]
    /\ language_servers = EmptyDict
    /\ all_language_servers = EmptyDict

\* C11: after init_language_servers every key of language_servers (resolved
\* with only_installed) is a key of all_language_servers, whatever the
\* finders, installed or not, and the configuration are.
C11_AllIsSuperset ==
    init_pc # "new" => DOMAIN language_servers \subseteq DOMAIN all_language_servers

ListenersRegistered == \E s \in ScopeNames : registered[s] # <<>>

ListenersOfTraits ==
    [s \in ScopeNames |->
        CASE s = "all" -> all_listeners
          [] s = "client" -> client_listeners
          [] s = "server" -> server_listeners]

\* C12 (as stated): initialize resolves the specs, then builds the sessions,
\* then registers the listeners, so that a listener is registered only once
\* the sessions have been built.
C12_ListenersAfterSessions == ListenersRegistered => init_pc = "ready"

\* C12 (amended): initialize resolves the specs, then registers the
\* listeners, then builds the sessions: while the resolution has not run
\* nothing is registered, no session exists until the listeners of the three
\* scopes are registered, and the sessions are built from the resolved specs
\* with every listener in place.
C12_SessionsAfterListeners ==
    /\ init_pc \in {"new", "specs"} =>
          ~ListenersRegistered /\ sessions = EmptyDict
    /\ init_pc = "new" => language_servers_from_config = EmptyDict
    /\ init_pc = "listeners" =>
          registered = ListenersOfTraits /\ sessions = EmptyDict
    /\ init_pc = "ready" =>
          /\ registered = ListenersOfTraits
          /\ DOMAIN sessions = DOMAIN language_servers

C12_Witness ==
    /\ init_pc = "ready"
    /\ sessions # EmptyDict
    /\ "c3" \in Range(registered["client"])
    /\ registered["server"] # <<>>

SessionsOf(h) == {k \in DOMAIN handlers : h \in handlers[k]}

\* C13: in every state reached by subscribe and unsubscribe calls a handler
\* is in the subscriber set of at most one session, and that session is the
\* one registered under the handler's own language_server key.
C13_OneSessionPerHandler ==
    \A h \in Handlers :
        /\ Cardinality(SessionsOf(h)) <= 1
        /\ SessionsOf(h) \subseteq {language_server(h)} \cap DOMAIN sessions

C13_Witness ==
    /\ SessionsOf("h1") = {"py"}
    /\ SessionsOf("h2") = {"py"}
    /\ SessionsOf("h3") = {"r"}
    /\ SessionsOf("h4") = {}

\* what a resolution over the finders eps and the configuration returns
ResolvedFrom(eps, only_installed) ==
    opt_out_filter(overlay(UpdatePairs(EmptyDict,
                                       autodetect_from(eps, only_installed)),
                           Merged))

Healthy(only_installed) ==
    SelectSeq(entry_points, LAMBDA ep : ~finder_fails(ep, only_installed))

\* C14: a finder that raises when its entry point is loaded, in its
\* is_installed check or when it is called contributes no entry, and the
\* resolution still returns what the other finders and the configuration
\* give: each resolved mapping is the one obtained with the failing finders
\* left out.
C14_FailingFinderSkipped ==
    (init_pc # "new" /\ autodetect) =>
        \A only_installed \in BOOLEAN :
            Resolved(only_installed) =
                ResolvedFrom(Healthy(only_installed), only_installed)

C14_Witness ==
    /\ init_pc # "new"
    /\ autodetect
    /\ \E i, j \in DOMAIN entry_points :
          /\ i < j
          /\ finder_fails(entry_points[i], TRUE)
          /\ entry_points[i].load = "ok"
          /\ ~finder_fails(entry_points[j], TRUE)
          /\ \E k \in DOMAIN entry_points[j].specs \ DOMAIN Merged :
                /\ k \in DOMAIN language_servers
                /\ language_servers[k] = entry_points[j].specs[k]
          /\ \E k \in DOMAIN entry_points[i].specs :
                k \notin DOMAIN language_servers

\* the finder was called and returned its specs
finder_returns(ep, only_installed) ==
    /\ ep.load = "ok"
    /\ ~(only_installed /\ ep.is_installed \in {"no", "raises"})
    /\ ep.call = "ok"

RECURSIVE entry_wise_from(_, _)
entry_wise_from(eps, only_installed) ==
    IF eps = <<>> THEN <<>>
    ELSE finder_pairs_entry_wise(Head(eps), only_installed)
            \o entry_wise_from(Tail(eps), only_installed)

\* C15 (as stated): the specs a finder returns are validated pair by pair;
\* a pair that fails the schema is discarded and the valid pairs the same
\* finder returned in that call are still part of the resolution.
C15_EntryWiseValidation ==
    (init_pc # "new" /\ autodetect) =>
        \A only_installed \in BOOLEAN :
            Resolved(only_installed) =
                opt_out_filter(overlay(
                    UpdatePairs(EmptyDict,
                                entry_wise_from(entry_points, only_installed)),
                    Merged))

WhollyValid(only_installed) ==
    SelectSeq(entry_points,
              LAMBDA ep : finder_returns(ep, only_installed)
                              => iter_errors(ep.specs) = {})

\* C15 (amended): the specs a finder returns are validated as one mapping;
\* when any pair fails the schema every pair of that call is discarded, and
\* the resolution is the one over the finders whose mappings are wholly
\* valid, overlaid by the configuration.
C15_FinderWiseValidation ==
    (init_pc # "new" /\ autodetect) =>
        \A only_installed \in BOOLEAN :
            Resolved(only_installed) =
                ResolvedFrom(WhollyValid(only_installed), only_installed)

C15_Witness ==
    /\ init_pc # "new"
    /\ autodetect
    /\ \E only_installed \in BOOLEAN :
       \E i, j \in DOMAIN entry_points :
          /\ finder_returns(entry_points[i], only_installed)
          /\ iter_errors(entry_points[i].specs) # {}
          /\ \E k \in DOMAIN entry_points[i].specs
                        \ iter_errors(entry_points[i].specs) :
                /\ GetArgv(entry_points[i].specs[k]) # <<>>
                /\ k \notin DOMAIN Merged
                /\ k \notin DOMAIN Resolved(only_installed)
          /\ finder_returns(entry_points[j], only_installed)
          /\ iter_errors(entry_points[j].specs) = {}
          /\ \E k \in DOMAIN entry_points[j].specs :
                /\ k \in DOMAIN Resolved(only_installed)
                /\ Resolved(only_installed)[k] = entry_points[j].specs[k]

\* C16: once initialize has run, the keys of sessions are the keys of the
\* mapping resolved with only_installed, each session carries its key and
\* the spec resolved for it, and a key that only all_language_servers holds
\* has no session.
C16_SessionPerOperativeSpec ==
    init_pc = "ready" =>
        /\ language_servers =
              collect_language_servers(language_servers_from_config, TRUE)
        /\ DOMAIN sessions = DOMAIN language_servers
        /\ \A k \in DOMAIN sessions :
              /\ sessions[k].language_server = k
              /\ sessions[k].spec = language_servers[k]
        /\ \A k \in DOMAIN all_language_servers \ DOMAIN language_servers :
              k \notin DOMAIN sessions

C16_Witness ==
    /\ init_pc = "ready"
    /\ DOMAIN sessions = {"py"}
    /\ sessions["py"].spec = Pyls
    /\ "r" \in DOMAIN all_language_servers

----------------------------------------------------------------------------
(* Termination of on_client_message (SpecClientFair) *)

Submitted(m) ==
    /\ m \in DOMAIN client_tasks
    /\ language_server(client_tasks[m].handler) \in DOMAIN sessions

CopiesWritten(m, k) ==
    Cardinality({i \in DOMAIN written[k] : written[k][i] = m})

WrittenOnce(m) ==
    /\ Submitted(m)
    /\ \A k \in DOMAIN written :
          CopiesWritten(m, k) =
              IF k = language_server(client_tasks[m].handler) THEN 1 ELSE 0

\* C17: when the handler's key has a session and every listener that was
\* invoked completes, on_client_message eventually passes the message to
\* Session.write of that session, once and as it was received; at no time
\* is a message written twice.  A submitted message stays submitted, so the
\* second conjunct says of each message that it is eventually written once
\* and remains so.
C17_EventuallyWrittenOnce ==
    /\ [](\A m \in 1..MaxClientMsgs : \A k \in DOMAIN written :
              CopiesWritten(m, k) <= 1)
    /\ <>[](\A m \in 1..MaxClientMsgs : Submitted(m) => WrittenOnce(m))

C17_Witness ==
    \E m \in DOMAIN client_tasks :
        /\ WrittenOnce(m)
        /\ client_tasks[m].done = {"a1", "c3"}
        /\ \E n \in DOMAIN client_tasks :
              n # m /\ Submitted(n) /\ client_tasks[n].pc = "listeners"

----------------------------------------------------------------------------
(* Listener dispatch and subscriber set of on_server_message (SpecServer) *)

ServerListeners == Range(registered["server"]) \cup Range(registered["all"])

\* C18: for a server message of a session of the registry the listeners of
\* SERVER and ALL are dispatched once, with the key of that session, and the
\* dispatch has completed before any subscribed handler is given the message.
C18_DispatchOnceBeforeDelivery ==
    \A m \in DOMAIN server_tasks :
        LET task == server_tasks[m]
        IN  /\ task.session \in DOMAIN sessions
            /\ task.dispatched = <<task.session>>
            /\ task.invoked = ServerListeners
            /\ task.pc = "listeners" => Received(m) = {}
            /\ Finished(m) => task.keys = <<>> /\ task.done = ServerListeners
            /\ Received(m) # {} => Finished(m)

C18_Witness ==
    \E m \in DOMAIN server_tasks :
        /\ server_tasks[m].pc = "done"
        /\ server_tasks[m].dispatched = <<"r">>
        /\ server_tasks[m].done = {"s1"}
        /\ Received(m) = {"h3"}

\* C19: the handlers a broadcast writes to are those of session.handlers
\* when the SERVER dispatch has completed, not when on_server_message was
\* called: a handler that unsubscribed during the await gets nothing, a
\* handler that subscribed during the await is written to by the broadcast
\* that runs through, only handlers of the later set are written to, and
\* nothing is written to anyone while the dispatch is pending.
C19_SubscribersAfterDispatch ==
    \A m \in DOMAIN server_tasks :
        LET task == server_tasks[m]
            left == task.at_call \ task.at_broadcast
            joined == task.at_broadcast \ task.at_call
        IN  /\ task.pc = "listeners" => Received(m) = {}
            /\ Finished(m) =>
                  /\ left \cap Received(m) = {}
                  /\ task.pc = "done" => joined \subseteq Received(m)
                  /\ Received(m) \ task.at_call \subseteq joined

C19_Witness ==
    \E m \in DOMAIN server_tasks :
        /\ server_tasks[m].pc = "done"
        /\ server_tasks[m].invoked # {}
        /\ "h1" \in server_tasks[m].at_call \ server_tasks[m].at_broadcast
        /\ "h2" \in server_tasks[m].at_broadcast \ server_tasks[m].at_call
        /\ "h2" \in Received(m)
        /\ "h1" \notin Received(m)

----------------------------------------------------------------------------
(* Resolution with autodetect off (SpecResolve) *)

StaticOverlaidByDynamic ==
    [k \in DOMAIN language_servers_from_config \cup DOMAIN conf_d_language_servers |->
        IF k \in DOMAIN conf_d_language_servers
        THEN conf_d_language_servers[k]
        ELSE language_servers_from_config[k]]

ConfiguredOnly ==
    [k \in {x \in DOMAIN StaticOverlaidByDynamic :
                /\ "argv" \in DOMAIN StaticOverlaidByDynamic[x]
                /\ StaticOverlaidByDynamic[x].argv # <<>>} |->
        StaticOverlaidByDynamic[k]]

\* C20: with autodetect off no finder contributes: language_servers and
\* all_language_servers are both the static configuration overlaid by the
\* conf.d one, less the entries without argv, and so are equal.
C20_ConfigurationOnly ==
    (init_pc # "new" /\ ~autodetect) =>
        /\ language_servers = ConfiguredOnly
        /\ all_language_servers = ConfiguredOnly
        /\ language_servers = all_language_servers

C20_Witness ==
    /\ init_pc # "new"
    /\ ~autodetect
    /\ Len(entry_points) = 1
    /\ finder_returns(entry_points[1], TRUE)
    /\ "py" \in DOMAIN entry_points[1].specs
    /\ GetArgv(entry_points[1].specs["py"]) # <<>>
    /\ DOMAIN language_servers = {"r"}
    /\ "py" \in DOMAIN StaticOverlaidByDynamic
    /\ all_language_servers = language_servers

====
